---- MODULE Spec2Model ----
(***************************************************************************)
(* pc_assistant (src/main.py): the request loop of main() and the pipeline *)
(* query_model -> json.loads -> construct_command (-> open_program ->      *)
(* find_program_path / find_office_path) -> run_command.                   *)
(*                                                                         *)
(* Strings.  A Python str is a sequence of pieces [txt, quoted]: txt is a  *)
(* run of characters and quoted says that the run stands between double    *)
(* quotes in the text (a JSON string literal).  The marker "Error" and the *)
(* braces are always pieces of their own, so substring tests on them are   *)
(* tests on pieces.  Python values are records [type, val].                *)
(***************************************************************************)
EXTENDS Integers, Sequences, FiniteSets, TLC

VARIABLES pc, reply, model_output, data, command, message, os_calls

vars == <<pc, reply, model_output, data, command, message, os_calls>>

(* Longest run of commentary the translator puts before or after a payload *)
MaxNoise == 1

--------------------------------------------------------------------------
(* Texts and Python values *)

W(s) == [txt |-> s, quoted |-> FALSE]

Q(s) == [txt |-> s, quoted |-> TRUE]

PyStr(text) == [type |-> "str", val |-> text]

PyInt(text) == [type |-> "int", val |-> text]

PyNone == [type |-> "NoneType", val |-> <<>>]

(* bool(v): None, "" and 0 are falsy *)
Truthy(v) ==
    CASE v.type = "str" -> v.val # <<>>
      [] v.type = "int" -> v.val # <<W("0")>>
      [] OTHER -> FALSE

(* str(v) as an f-string field renders it *)
Format(v) == IF v.type = "NoneType" THEN <<W("None")>> ELSE v.val

(* "Error" in s *)
ContainsError(text) == \E i \in DOMAIN text : text[i].txt = "Error"

(* s.startswith("Error") *)
StartsWithError(text) == Len(text) > 0 /\ text[1].txt = "Error"

(* str.lower() on the runs of letters that program names are made of *)
lower_run(s) ==
    CASE s \in {"Word", "WORD"} -> "word"
      [] s \in {"Excel", "EXCEL"} -> "excel"
      [] s \in {"PowerPoint", "POWERPOINT"} -> "powerpoint"
      [] s \in {"Outlook", "OUTLOOK"} -> "outlook"
      [] s \in {"Access", "ACCESS"} -> "access"
      [] s \in {"Publisher", "PUBLISHER"} -> "publisher"
      [] s \in {"Notepad", "NOTEPAD"} -> "notepad"
      [] s = "Zork" -> "zork"
      [] OTHER -> s

lower(text) == [i \in DOMAIN text |-> [text[i] EXCEPT !.txt = lower_run(@)]]

--------------------------------------------------------------------------
(* find_office_path *)

office_programs ==
    [word |-> "WINWORD.EXE", excel |-> "EXCEL.EXE", powerpoint |-> "POWERPNT.EXE",
     outlook |-> "OUTLOOK.EXE", access |-> "MSACCESS.EXE", publisher |-> "MSPUB.EXE"]

(* the lookup without lower(): office_programs.get(program_name, program_name) *)
executable_name_case_sensitive(program_name) ==
    IF Len(program_name) = 1 /\ program_name[1].txt \in DOMAIN office_programs
    THEN <<W(office_programs[program_name[1].txt])>>
    ELSE program_name

(* office_programs.get(program_name.lower(), program_name) *)
executable_name_of(program_name) ==
    LET k == lower(program_name)
    IN  IF Len(k) = 1 /\ k[1].txt \in DOMAIN office_programs
        THEN <<W(office_programs[k[1].txt])>>
        ELSE program_name

AppPaths == "SOFTWARE\\Microsoft\\Windows\\CurrentVersion\\App Paths\\"

(* What the registry holds under App Paths\<executable_name>, by the host's
   answer env.reg: a path, an empty default value, no such key, or a failure
   of the registry access itself. *)
find_office_path(program_name, env) ==
    LET executable_name == executable_name_of(program_name)
        key_path == <<W(AppPaths)>> \o executable_name
        program_path == <<W("C:\\Program Files\\Office\\")>> \o executable_name
        call == [prim |-> "OpenKey", arg |-> key_path, outcome |-> env.reg,
                 value |-> IF env.reg = "found" THEN program_path ELSE <<>>]
    IN  [calls |-> <<call>>,
         ret |->
            CASE env.reg = "found" -> PyStr(program_path)
              [] env.reg = "empty" -> PyStr(<<>>)
              [] env.reg = "missing" ->
                    PyStr(<<W("Error"), W(": ")>> \o program_name
                            \o <<W(" not found in the registry.")>>)
              [] OTHER ->
                    PyStr(<<W("Error"), W(" while accessing registry: "),
                            W("<exception>")>>),
         raised |-> FALSE]

--------------------------------------------------------------------------
(* find_program_path: shutil.which on the lower-cased name.  A value that is
   no str has no lower(): AttributeError leaves the function. *)
find_program_path(program_name, env) ==
    IF program_name.type # "str"
    THEN [calls |-> <<>>, ret |-> PyNone, raised |-> TRUE]
    ELSE LET executable_name == lower(program_name.val)
             path == <<W("C:\\Windows\\")>> \o executable_name \o <<W(".exe")>>
             call == [prim |-> "which", arg |-> executable_name,
                      outcome |-> IF env.which THEN "found" ELSE "none",
                      value |-> IF env.which THEN path ELSE <<>>]
         IN  [calls |-> <<call>>,
              ret |-> IF env.which THEN PyStr(path) ELSE PyNone,
              raised |-> FALSE]

--------------------------------------------------------------------------
(* The two process-start primitives of open_program, by the host's answer.
   subprocess.Popen(..., shell=True) starts the command interpreter: it
   returns normally whether or not the interpreter then finds the program
   ("running" / "noprog"), and raises only when the interpreter itself cannot
   be started.  No program bears a diagnostic text as its name. *)
Popen(target, env) ==
    [prim |-> "Popen", arg |-> target,
     outcome |-> IF ContainsError(target) /\ env.popen = "running"
                 THEN "noprog" ELSE env.popen,
     value |-> <<>>]

startfile(target, env) ==
    [prim |-> "startfile", arg |-> target, outcome |-> env.startfile,
     value |-> <<>>]

Raises(call) == call.outcome \in {"fnf", "oserror"}

OpenedMsg(program_name) ==
    <<W("Program '")>> \o program_name \o <<W("' opened successfully.")>>

NotFoundMsg(program_name) ==
    <<W("Error"), W(": Program '")>> \o program_name \o <<W("' not found.")>>

OpeningErrorMsg == <<W("Error"), W(" while opening program: "), W("<exception>")>>

(* open_program with the registry consulted whatever the search path said *)
open_program_registry_first(program_name, env) ==
    LET found == find_program_path(program_name, env)
        office == find_office_path(program_name.val, env)
        p == Popen(<<W("\"")>> \o office.ret.val \o <<W("\"")>>, env)
    IN  IF found.raised
        THEN [calls |-> found.calls, ret |-> <<>>, raised |-> TRUE]
        ELSE [calls |-> found.calls \o office.calls \o <<p>>,
              ret |-> IF Raises(p) THEN OpeningErrorMsg
                      ELSE OpenedMsg(program_name.val),
              raised |-> FALSE]

open_program(program_name, env) ==
    LET found == find_program_path(program_name, env)
    IN  IF found.raised
        THEN [calls |-> found.calls, ret |-> <<>>, raised |-> TRUE]
        ELSE
        LET office == IF Truthy(found.ret)
                      THEN [calls |-> <<>>, ret |-> found.ret, raised |-> FALSE]
                      ELSE find_office_path(program_name.val, env)
            path == office.ret
            resolved == found.calls \o office.calls
        IN  IF Truthy(path)
            THEN LET p == Popen(<<W("\"")>> \o path.val \o <<W("\"")>>, env)
                 IN  [calls |-> resolved \o <<p>>,
                      ret |-> IF Raises(p) THEN OpeningErrorMsg
                              ELSE OpenedMsg(program_name.val),
                      raised |-> FALSE]
            ELSE LET p == Popen(program_name.val, env)
                     s == startfile(program_name.val, env)
                 IN  IF Raises(p)
                     THEN [calls |-> resolved \o <<p>>,
                           ret |-> IF p.outcome = "fnf"
                                   THEN NotFoundMsg(program_name.val)
                                   ELSE OpeningErrorMsg,
                           raised |-> FALSE]
                     ELSE [calls |-> resolved \o <<p, s>>,
                           ret |-> CASE s.outcome = "fnf" ->
                                            NotFoundMsg(program_name.val)
                                     [] s.outcome = "oserror" -> OpeningErrorMsg
                                     [] OTHER -> OpenedMsg(program_name.val),
                           raised |-> FALSE]

--------------------------------------------------------------------------
(* construct_command *)

(* dict.get(key, default) *)
Get(details, key, default) ==
    IF key \in DOMAIN details THEN details[key] ELSE default

IsStrEq(v, s) == v.type = "str" /\ v.val = <<W(s)>>

(* winreg is imported at module level (line 7): the program runs on Windows *)
IsWindows == TRUE

NoProgramMsg == <<W("Error"), W(": No program specified to open.")>>

UnsupportedMsg == <<W("Error"), W(": Unsupported action.")>>

Result(text) == [calls |-> <<>>, ret |-> text, raised |-> FALSE]

(* construct_command without the test for a missing program *)
construct_command_unchecked(action, details, env) ==
    IF IsStrEq(action, "open_program")
    THEN open_program(Get(details, "program", PyStr(<<>>)), env)
    ELSE IF IsStrEq(action, "list_directory")
    THEN Result(<<W(IF IsWindows THEN "dir " ELSE "ls ")>>
                    \o Format(Get(details, "path", PyStr(<<W(".")>>))))
    ELSE IF IsStrEq(action, "show_path")
    THEN Result(<<W(IF IsWindows THEN "echo %cd%" ELSE "pwd")>>)
    ELSE Result(UnsupportedMsg)

construct_command(action, details, env) ==
    IF IsStrEq(action, "open_program")
    THEN LET program == Get(details, "program", PyStr(<<>>))
         IN  IF ~Truthy(program)
             THEN Result(NoProgramMsg)
             ELSE open_program(program, env)
    ELSE IF IsStrEq(action, "list_directory")
    THEN Result(<<W(IF IsWindows THEN "dir " ELSE "ls ")>>
                    \o Format(Get(details, "path", PyStr(<<W(".")>>))))
    ELSE IF IsStrEq(action, "show_path")
    THEN Result(<<W(IF IsWindows THEN "echo %cd%" ELSE "pwd")>>)
    ELSE Result(UnsupportedMsg)

--------------------------------------------------------------------------
(* run_command *)
run_command(cmd, env) ==
    IF StartsWithError(cmd)
    THEN Result(cmd)
    ELSE [calls |-> <<[prim |-> "run", arg |-> cmd, outcome |-> env.run,
                       value |-> <<>>]>>,
          ret |-> CASE env.run = "zero" -> <<W("<stdout>")>>
                    [] env.run = "nonzero" ->
                            <<W("Error"), W(": "), W("<stderr>")>>
                    [] OTHER -> <<W("Error"), W(" while executing command: "),
                                  W("<exception>")>>,
          raised |-> FALSE]

--------------------------------------------------------------------------
(* query_model and json.loads *)

Min(S) == CHOOSE x \in S : \A y \in S : x <= y

Max(S) == CHOOSE x \in S : \A y \in S : x >= y

NoJsonMsg == <<W("Error"), W(": No valid JSON found in model output.")>>

(* re.search(r"\{.*\}", raw_output, re.DOTALL): the leftmost "{" that has a
   "}" after it, up to the LAST "}" of the text (".*" is greedy) *)
regex_search(raw_output) ==
    LET opens == {i \in DOMAIN raw_output : raw_output[i].txt = "{"}
        closes == {j \in DOMAIN raw_output : raw_output[j].txt = "}"}
    IN  IF \E i \in opens, j \in closes : i < j
        THEN [matched |-> TRUE,
              group |-> SubSeq(raw_output, Min(opens), Max(closes))]
        ELSE [matched |-> FALSE, group |-> <<>>]

(* query_model, given the text the translator wrote (returncode 0), its
   failure (returncode # 0) or a failure to run it *)
query_model(raw_output, outcome) ==
    CASE outcome = "zero" ->
            LET match == regex_search(raw_output)
            IN  IF match.matched THEN match.group ELSE NoJsonMsg
      [] outcome = "nonzero" ->
            <<W("Error"), W(" from model: "), W("<stderr>")>>
      [] OTHER ->
            <<W("Error"), W(" while querying model: "), W("<exception>")>>

EmptyDict == [k \in {} |-> PyNone]

(* A JSON scalar as the Python value json.loads makes of it: a string
   literal loses its quotes *)
IsScalar(lexeme) == lexeme.quoted \/ lexeme.txt \in {"null", "0", "7"}

Decode(lexeme) ==
    IF lexeme.quoted
    THEN PyStr(IF lexeme.txt = "" THEN <<>> ELSE <<W(lexeme.txt)>>)
    ELSE IF lexeme.txt = "null" THEN PyNone
    ELSE PyInt(<<W(lexeme.txt)>>)

(* json.loads on a text that starts with "{" and ends with "}": an object
   whose members are  "key" : scalar  separated by commas; a later member
   replaces an earlier one of the same key.  Anything else between the
   braces (a bare word, a brace, a missing colon) is a JSONDecodeError. *)
json_loads(text) ==
    LET n == Len(text) - 2
        inner == SubSeq(text, 2, Len(text) - 1)
        bare(i, c) == ~inner[i].quoted /\ inner[i].txt = c
        wellformed ==
            /\ Len(text) >= 2
            /\ ~text[1].quoted /\ text[1].txt = "{"
            /\ ~text[Len(text)].quoted /\ text[Len(text)].txt = "}"
            /\ n = 0 \/ n % 4 = 3
            /\ \A i \in 1..n :
                  CASE i % 4 = 1 -> inner[i].quoted
                    [] i % 4 = 2 -> bare(i, ":")
                    [] i % 4 = 3 -> IsScalar(inner[i]) /\ ~bare(i, ":")
                    [] OTHER -> bare(i, ",")
        keyat == {i \in 1..n : i % 4 = 1}
        keys == {inner[i].txt : i \in keyat}
        last(k) == Max({i \in keyat : inner[i].txt = k})
    IN  IF wellformed
        THEN [ok |-> TRUE, obj |-> [k \in keys |-> Decode(inner[last(k) + 2])]]
        ELSE [ok |-> FALSE, obj |-> EmptyDict]

InvalidJsonMsg == <<W("Error"), W(": Invalid JSON output from model.")>>

NoActionMsg == <<W("Error"), W(": No action provided by the model.")>>

--------------------------------------------------------------------------
(* What the translator may write: commentary, then a payload or something
   that is none, then commentary *)

NoiseWords == {W("hi"), W("{"), W("}"), W("Error")}

RECURSIVE SeqsUpTo(_, _)
SeqsUpTo(S, n) ==
    IF n = 0 THEN {<<>>}
    ELSE LET shorter == SeqsUpTo(S, n - 1)
         IN  shorter \cup {Append(t, x) : t \in shorter, x \in S}

Noise == SeqsUpTo(NoiseWords, MaxNoise)

(* The text of a JSON object with the given members <<key, value lexeme>> *)
RECURSIVE Members(_)
Members(ms) ==
    IF Len(ms) = 0 THEN <<>>
    ELSE LET m == <<Q(ms[1][1]), W(":"), ms[1][2]>>
         IN  IF Len(ms) = 1 THEN m ELSE m \o <<W(",")>> \o Members(Tail(ms))

Payload(ms) == <<W("{")>> \o Members(ms) \o <<W("}")>>

ProgramNames ==
    {"word", "Word", "WORD", "excel", "Excel", "powerpoint", "PowerPoint",
     "outlook", "OUTLOOK", "access", "Access", "publisher", "PUBLISHER",
     "notepad", "Notepad", "Zork"}

Intents ==
    {<<<<"action", Q("open_program")>>, <<"program", Q(n)>>>> : n \in ProgramNames}
    \cup
    {<<<<"action", Q("open_program")>>, <<"program", v>>>> :
        v \in {Q(""), W("null"), W("0"), W("7"), Q("Error")}}
    \cup
    {<< >>,
     <<<<"action", Q("open_program")>>>>,
     <<<<"action", Q("list_directory")>>>>,
     <<<<"action", Q("list_directory")>>, <<"path", Q("/tmp")>>>>,
     <<<<"action", Q("show_path")>>>>,
     <<<<"action", Q("show_path")>>, <<"note", Q("Error")>>>>,
     <<<<"action", Q("dance")>>>>,
     <<<<"action", W("7")>>>>,
     <<<<"action", Q("")>>>>,
     <<<<"action", W("null")>>>>,
     <<<<"program", Q("Word")>>>>,
     <<<<"program", Q("Word")>>, <<"action", Q("open_program")>>,
       <<"program", Q("notepad")>>>>}

Malformed ==
    {<<W("{"), Q("action"), Q("show_path"), W("}")>>,
     <<W("{"), Q("action"), W(":"), W("show_path"), W("}")>>,
     <<W("{"), Q("action"), W(":"), Q("show_path"), W(","), W("}")>>,
     <<W("{"), W("Error"), W("}")>>,
     <<W("{"), Q("action"), W(":"), Q("show_path")>>,
     <<W("sorry")>>,
     << >>}

Bodies == {Payload(ms) : ms \in Intents} \cup Malformed

ModelOutcomes == {"zero", "nonzero", "raised"}

Hosts ==
    [which : BOOLEAN,
     reg : {"found", "empty", "missing", "denied"},
     popen : {"running", "noprog", "fnf", "oserror"},
     startfile : {"ok", "fnf", "oserror"}]

RunOutcomes == {"zero", "nonzero", "raised"}

--------------------------------------------------------------------------
(* main *)

NoReply == [pre |-> <<>>, body |-> <<>>, post |-> <<>>, outcome |-> "none"]

Init ==
    /\ pc = "prompt"
    /\ reply = NoReply
    /\ model_output = <<>>
    /\ data = EmptyDict
    /\ command = <<>>
    /\ message = <<>>
    /\ os_calls = <<>>

Tag(calls, stage) ==
    [i \in DOMAIN calls |->
        [prim |-> calls[i].prim, arg |-> calls[i].arg,
         outcome |-> calls[i].outcome, value |-> calls[i].value,
         stage |-> stage]]

(* lines 168-176: a request is read and the translator queried.  Nothing is
   kept from one request to the next: Loop has cleared the last one. *)
Request ==
    /\ pc = "prompt"
    /\ \E pre \in Noise, body \in Bodies, post \in Noise, outcome \in ModelOutcomes :
          /\ outcome # "zero" => pre = <<>> /\ body = <<>> /\ post = <<>>
          /\ reply' = [pre |-> pre, body |-> body, post |-> post, outcome |-> outcome]
          /\ model_output' = query_model(pre \o body \o post, outcome)
    /\ pc' = "queried"
    /\ UNCHANGED <<data, command, message, os_calls>>

(* lines 169-171: exit / quit *)
Exit ==
    /\ pc = "prompt"
    /\ pc' = "exited"
    /\ UNCHANGED <<reply, model_output, data, command, message, os_calls>>

(* lines 178-187 and 199-200 *)
Parse ==
    /\ pc = "queried"
    /\ LET loaded == json_loads(model_output)
       IN  IF ContainsError(model_output)
           THEN /\ message' = model_output
                /\ pc' = "done"
                /\ data' = data
           ELSE IF ~loaded.ok
           THEN /\ message' = InvalidJsonMsg
                /\ pc' = "done"
                /\ data' = data
           ELSE IF ~Truthy(Get(loaded.obj, "action", PyNone))
           THEN /\ message' = NoActionMsg
                /\ pc' = "done"
                /\ data' = loaded.obj
           ELSE /\ message' = message
                /\ pc' = "parsed"
                /\ data' = loaded.obj
    /\ UNCHANGED <<reply, model_output, command, os_calls>>

(* lines 189-190: command = construct_command(action, data) *)
Dispatch ==
    /\ pc = "parsed"
    /\ \E env \in Hosts :
          LET r == construct_command(data["action"], data, env)
          IN  /\ os_calls' = os_calls \o Tag(r.calls, "dispatch")
              /\ command' = r.ret
              /\ pc' = IF r.raised THEN "crashed" ELSE "dispatched"
    /\ UNCHANGED <<reply, model_output, data, message>>

(* lines 193-197 *)
Execute ==
    /\ pc = "dispatched"
    /\ IF ~IsStrEq(data["action"], "open_program")
       THEN \E out \in RunOutcomes :
               LET r == run_command(command, [run |-> out])
               IN  /\ message' = r.ret
                   /\ os_calls' = os_calls \o Tag(r.calls, "execute")
       ELSE /\ message' = command
            /\ os_calls' = os_calls
    /\ pc' = "done"
    /\ UNCHANGED <<reply, model_output, data, command>>

(* line 167, and the continue statements: back to the prompt; the locals of
   the iteration are dead *)
Loop ==
    /\ pc = "done"
    /\ pc' = "prompt"
    /\ reply' = NoReply
    /\ model_output' = <<>>
    /\ data' = EmptyDict
    /\ command' = <<>>
    /\ message' = <<>>
    /\ os_calls' = <<>>

Next == Request \/ Exit \/ Parse \/ Dispatch \/ Execute \/ Loop

Spec == Init /\ [][Next]_vars

--------------------------------------------------------------------------
(* The request in hand, as the properties below speak of it *)

Calls(prim) == {i \in DOMAIN os_calls : os_calls[i].prim = prim}

ProcessStarts == Calls("Popen") \cup Calls("startfile") \cup Calls("run")

Launches == Calls("Popen") \cup Calls("startfile")

Dispatched == pc \in {"dispatched", "done", "crashed"} /\ "action" \in DOMAIN data

OpenProgramRequest == Dispatched /\ data["action"] = PyStr(<<W("open_program")>>)

ProgramGiven == "program" \in DOMAIN data /\ data["program"] # PyStr(<<>>)

SearchPathFound == \E i \in Calls("which") : os_calls[i].outcome = "found"

SearchPathFailed == \E i \in Calls("which") : os_calls[i].outcome = "none"

RegistryKeyMissing == \E i \in Calls("OpenKey") : os_calls[i].outcome = "missing"

Quoted(text) == <<W("\"")>> \o text \o <<W("\"")>>

raw_output == reply.pre \o reply.body \o reply.post

(* C1: when the search-path lookup of an open_program request succeeds, the
   registry is not queried during the request and what is launched is the
   path the lookup returned; a registry query is always preceded by a
   search-path lookup that returned nothing. *)
StrategyOrdering ==
    /\ \A i \in Calls("which") :
          os_calls[i].outcome = "found" =>
              /\ Calls("OpenKey") = {}
              /\ Dispatched /\ pc # "crashed" => Calls("Popen") # {}
              /\ \A j \in Launches : os_calls[j].arg = Quoted(os_calls[i].value)
    /\ \A j \in Calls("OpenKey") :
          \E i \in Calls("which") : i < j /\ os_calls[i].outcome = "none"

StrategyOrderingWitness ==
    /\ pc = "done"
    /\ OpenProgramRequest /\ ProgramGiven
    /\ SearchPathFound
    /\ \E j \in Calls("Popen") : os_calls[j].outcome = "running"

(* C2: when the search-path lookup finds nothing and the registry has no key
   for the name, what is handed to the process-start primitive is the raw
   program name of the intent and nothing else. *)
FailedResolutionLaunchesRawName ==
    OpenProgramRequest /\ ProgramGiven /\ SearchPathFailed /\ RegistryKeyMissing
        => /\ Launches # {}
           /\ \A j \in Launches : os_calls[j].arg = data["program"].val

(* C3: an open_program request whose program is neither on the search path
   nor in the registry and that no launch attempt started ends with the
   message "program not found", never with the success message. *)
NotFoundIsReported ==
    /\ pc = "done" /\ OpenProgramRequest /\ ProgramGiven
    /\ SearchPathFailed /\ RegistryKeyMissing
    /\ \A j \in Launches : os_calls[j].outcome \notin {"running", "ok"}
    => message = NotFoundMsg(data["program"].val)

(* The second half of C3, for every open_program request: the success
   message is reported only when a launch attempt started the program. *)
SuccessMeansLaunched ==
    /\ pc = "done" /\ OpenProgramRequest /\ ProgramGiven
    /\ message = OpenedMsg(Format(data["program"]))
    => \E j \in Launches : os_calls[j].outcome \in {"running", "ok"}

(* C4: an open_program intent whose program is missing or empty is answered
   "no program specified"; no resolution strategy is called and no process
   is started during the request. *)
MissingProgramIsAnError ==
    OpenProgramRequest /\ ~ProgramGiven =>
        /\ pc # "crashed"
        /\ command = NoProgramMsg
        /\ os_calls = <<>>
        /\ pc = "done" => message = NoProgramMsg

MissingProgramWitness ==
    /\ pc = "done"
    /\ OpenProgramRequest
    /\ "program" \notin DOMAIN data
    /\ message = NoProgramMsg

MissingProgramEmptyWitness ==
    /\ pc = "done"
    /\ OpenProgramRequest
    /\ "program" \in DOMAIN data /\ data["program"] = PyStr(<<>>)

(* C5: dispatching an intent starts no process: every process start of a
   request is made by the executor step that follows the dispatch. *)
DispatcherStartsNoProcess ==
    \A i \in ProcessStarts : os_calls[i].stage = "execute"

(* C6: no request outcome terminates the process: no exception escapes the
   handling of a request. *)
NoRequestTerminatesTheProcess == pc # "crashed"

(* The Python object a payload with members ms encodes *)
ObjectOf(ms) ==
    LET keys == {ms[i][1] : i \in DOMAIN ms}
        last(k) == Max({i \in DOMAIN ms : ms[i][1] = k})
    IN  [k \in keys |-> Decode(ms[last(k)][2])]

HoldsNoPayload(text) ==
    ~\E i, j \in DOMAIN text : i < j /\ text[i].txt = "{" /\ text[j].txt = "}"

(* C7: a raw text made of one well-formed payload with commentary before and
   after it is parsed into the object the payload encodes, whatever the
   commentary says, and a payload that names an action is dispatched. *)
PayloadSurvivesNoise ==
    \A ms \in Intents :
        /\ reply.outcome = "zero" /\ reply.body = Payload(ms)
        /\ HoldsNoPayload(reply.pre) /\ HoldsNoPayload(reply.post)
        /\ pc \notin {"prompt", "queried"}
        => /\ data = ObjectOf(ms)
           /\ "action" \in DOMAIN data /\ Truthy(data["action"])
                 => pc = "parsed" \/ command # <<>> \/ pc = "crashed"

(* What does hold in place of C7: the payload is parsed into the object it
   encodes when the commentary has no "{" before it and no "}" after it and
   the payload does not hold the text "Error". *)
PayloadSurvivesBraceFreeNoise ==
    \A ms \in Intents :
        /\ reply.outcome = "zero" /\ reply.body = Payload(ms)
        /\ \A i \in DOMAIN reply.pre : reply.pre[i].txt # "{"
        /\ \A i \in DOMAIN reply.post : reply.post[i].txt # "}"
        /\ ~ContainsError(reply.body)
        /\ pc \notin {"prompt", "queried"}
        => /\ data = ObjectOf(ms)
           /\ "action" \in DOMAIN data /\ Truthy(data["action"])
                 => pc = "parsed" \/ command # <<>> \/ pc = "crashed"

(* C8: a raw text with no brace-delimited payload, or whose payload does not
   deserialize, or whose action is missing or empty, ends the request with a
   parse-error message; nothing is dispatched, resolved or started. *)
ParseFailed ==
    /\ reply.outcome = "zero"
    /\ LET match == regex_search(raw_output)
           loaded == json_loads(match.group)
       IN  \/ HoldsNoPayload(raw_output)
           \/ ~loaded.ok
           \/ "action" \notin DOMAIN loaded.obj
           \/ loaded.obj["action"] = PyStr(<<>>)

ParseFailureIsReported ==
    ParseFailed /\ pc \notin {"prompt", "queried"} =>
        /\ pc = "done"
        /\ message \in {NoJsonMsg, InvalidJsonMsg, NoActionMsg}
        /\ command = <<>>
        /\ os_calls = <<>>

(* The part of C8 that holds as stated: a parse failure ends the request
   with nothing dispatched, resolved or started. *)
ParseFailureAttemptsNothing ==
    ParseFailed /\ pc \notin {"prompt", "queried"} =>
        /\ pc = "done"
        /\ command = <<>>
        /\ os_calls = <<>>

(* C9: for a name that equals one of the six friendly names up to case, a
   failed search-path lookup is followed by a registry query for the
   canonical executable name, the same for every spelling of the name. *)
CanonicalName ==
    [word |-> "WINWORD.EXE", excel |-> "EXCEL.EXE",
     powerpoint |-> "POWERPNT.EXE", outlook |-> "OUTLOOK.EXE",
     access |-> "MSACCESS.EXE", publisher |-> "MSPUB.EXE"]

Spellings ==
    [word |-> {"word", "Word", "WORD"}, excel |-> {"excel", "Excel"},
     powerpoint |-> {"powerpoint", "PowerPoint"},
     outlook |-> {"outlook", "OUTLOOK"}, access |-> {"access", "Access"},
     publisher |-> {"publisher", "PUBLISHER"}]

FriendlyNameIgnoresCase ==
    \A k \in DOMAIN CanonicalName : \A n \in Spellings[k] :
        /\ OpenProgramRequest
        /\ "program" \in DOMAIN data /\ data["program"] = PyStr(<<W(n)>>)
        /\ SearchPathFailed
        => /\ Calls("OpenKey") # {}
           /\ \A j \in Calls("OpenKey") :
                 os_calls[j].arg = <<W(AppPaths), W(CanonicalName[k])>>

FriendlyNameWitness ==
    /\ pc = "done"
    /\ OpenProgramRequest /\ ProgramGiven
    /\ data["program"] = PyStr(<<W("PUBLISHER")>>)
    /\ SearchPathFailed
    /\ \E j \in Calls("OpenKey") :
          /\ os_calls[j].arg = <<W(AppPaths), W("MSPUB.EXE")>>
          /\ os_calls[j].outcome = "found"

(* C10: no text that carries the marker "Error" is handed to a process-start
   or command-interpreter primitive. *)
ErrorMarkerNeverReachesTheOS ==
    \A i \in ProcessStarts : ~ContainsError(os_calls[i].arg)

====
